---- MODULE Spec2Model ----
(***************************************************************************)
(* souffle-tools: the three lark Interpreters that walk a RAM tree         *)
(*   PyPlanVisitor      (src/souffle_tools/visitors/plan.py)               *)
(*   TextualPlanVisitor (src/souffle_tools/visitors/ram_plan.py)           *)
(*   IndexVisitor       (src/souffle_tools/visitors/indexes.py)            *)
(* modelled as one sequential machine: an explicit stack of the visits in  *)
(* progress, the visitor object's fields, and the value returned by the    *)
(* visit that finished last.  A Python exception stops the machine.        *)
(*                                                                         *)
(* Strings are TLA+ strings; TLC evaluates \o, Len, Head, Tail and SubSeq  *)
(* on them, so split/removesuffix/int/str are computed, not assumed.       *)
(* The non-ASCII symbols of ram_plan.py are written in ASCII, one distinct *)
(* spelling each: Delta as D, the empty set as {}, element-of as "in",     *)
(* union as U, the naturals as N, the angle brackets as < and >.           *)
(***************************************************************************)
EXTENDS Integers, Sequences, FiniteSets, TLC

\* ------------------------------------------------------------------ bounds
MaxDepth == 2
MaxSubs == 3
MaxBody == 2

\* ------------------------------------------------------- Python built-ins
RECURSIVE Join(_, _)
\* sep.join(xs)
Join(sep, xs) ==
    IF xs = <<>> THEN ""
    ELSE IF Len(xs) = 1 THEN xs[1]
    ELSE xs[1] \o sep \o Join(sep, Tail(xs))

\* s.split(sep) for a one-character separator: the pieces between
\* consecutive occurrences of sep
Split(s, sep) ==
    LET at == {i \in 1..Len(s) : SubSeq(s, i, i) = sep}
        cut(k) == IF k = 0 THEN 0
                  ELSE IF k = Cardinality(at) + 1 THEN Len(s) + 1
                  ELSE CHOOSE i \in at : Cardinality({j \in at : j < i}) = k - 1
    IN [k \in 1..(Cardinality(at) + 1) |-> SubSeq(s, cut(k - 1) + 1, cut(k) - 1)]

\* s.removesuffix(suf)
RemoveSuffix(s, suf) ==
    IF Len(suf) > 0 /\ Len(s) >= Len(suf)
       /\ SubSeq(s, Len(s) - Len(suf) + 1, Len(s)) = suf
    THEN SubSeq(s, 1, Len(s) - Len(suf))
    ELSE s

Digits == <<"0", "1", "2", "3", "4", "5", "6", "7", "8", "9">>

IsDigit(c) == \E d \in 1..10 : Digits[d] = c

DigitVal(c) == (CHOOSE d \in 1..10 : Digits[d] = c) - 1

RECURSIVE AllDigits(_)
AllDigits(s) == IF Len(s) = 0 THEN TRUE ELSE IsDigit(Head(s)) /\ AllDigits(Tail(s))

\* int(s) succeeds (decimal digits with an optional sign)
IsInt(s) ==
    /\ Len(s) > 0
    /\ IF Head(s) = "-" \/ Head(s) = "+"
       THEN Len(s) > 1 /\ AllDigits(Tail(s))
       ELSE AllDigits(s)

RECURSIVE ParseNat(_, _)
ParseNat(s, acc) ==
    IF Len(s) = 0 THEN acc ELSE ParseNat(Tail(s), 10 * acc + DigitVal(Head(s)))

\* int(s)
ParseInt(s) ==
    IF Head(s) = "-" THEN 0 - ParseNat(Tail(s), 0)
    ELSE IF Head(s) = "+" THEN ParseNat(Tail(s), 0)
    ELSE ParseNat(s, 0)

\* sorted(xs, key=...): Python decorates every element with its key and
\* sorts stably; items are records [key, val].  Insertion sort placing an
\* element after the elements of equal key is stable.
\* an insertion that puts an element before the elements of equal key
RECURSIVE InsertBeforeEqual(_, _)
InsertBeforeEqual(x, ys) ==
    IF ys = <<>> THEN <<x>>
    ELSE IF x.key <= Head(ys).key THEN <<x>> \o ys
    ELSE <<Head(ys)>> \o InsertBeforeEqual(x, Tail(ys))

RECURSIVE InsertByKey(_, _)
InsertByKey(x, ys) ==
    IF ys = <<>> THEN <<x>>
    ELSE IF x.key < Head(ys).key THEN <<x>> \o ys
    ELSE <<Head(ys)>> \o InsertByKey(x, Tail(ys))

RECURSIVE SortedByKey(_)
SortedByKey(xs) ==
    IF xs = <<>> THEN <<>>
    ELSE InsertByKey(xs[Len(xs)], SortedByKey(SubSeq(xs, 1, Len(xs) - 1)))

\* the elements of a set of ints in descending order
RECURSIVE DescendingSet(_)
DescendingSet(S) ==
    IF S = {} THEN <<>>
    ELSE LET m == CHOOSE x \in S : \A y \in S : x >= y
         IN <<m>> \o DescendingSet(S \ {m})

RECURSIVE SortedSet(_)
\* sorted(set_of_ints)
SortedSet(S) ==
    IF S = {} THEN <<>>
    ELSE LET m == CHOOSE x \in S : \A y \in S : x <= y
         IN <<m>> \o SortedSet(S \ {m})

\* repr(s) of a one-character delimiter string
Repr(s) == IF s = "\t" THEN "'\\t'" ELSE "'" \o s \o "'"

\* ---------------------------------------------------------- schema catalog
\* Relation(relname, attrs) of relations.py; attrs is the ordered list of
\* (attribute name, attribute type).
Relation(relname, attrs) == [relname |-> relname, attrs |-> attrs]

\* RelationVisitor.rels as handed to the visitors (rels: Dict[str, Relation]).
rels ==
    [n \in {"R", "S", "orders", "a.dl"} |->
        CASE n = "R" -> Relation(n, << <<"a", "number">>, <<"b", "symbol">>, <<"c", "number">> >>)
          [] n = "S" -> Relation(n, << <<"x", "symbol">>, <<"y", "number">>, <<"z", "float">> >>)
          [] n = "orders" -> Relation(n, << <<"id", "number">>, <<"item", "symbol">>, <<"qty", "unsigned">> >>)
          [] n = "a.dl" -> Relation(n, << <<"k", "number">>, <<"v", "symbol">>, <<"w", "number">> >>)]

\* ---------------------------------------------------------------- RAM tree
\* lark Trees, one record per node kind; `data` is Tree.data, the other
\* fields are the children the visitors read by position.
QualifiedName(segs) == [data |-> "qualified_name", children |-> segs]

\* ram_relname: children = [relkind token]? + [qualified_name]; relkind is
\* <<>> when the token is absent, so len(tree.children) > 1 iff relkind # <<>>.
RamRelname(relkind, segs) ==
    [data |-> "ram_relname",
     relkind |-> (IF relkind = "" THEN <<>> ELSE <<relkind>>),
     qualified_name |-> QualifiedName(segs)]

Ref(t, col) == [data |-> "tuple_element_ref", tuple_name |-> t, col |-> col]

Literal(v) == [data |-> "tuple_element_literal", value |-> v]

Comparision(lhs, op, rhs) == [data |-> "comparision", lhs |-> lhs, op |-> op, rhs |-> rhs]

RamCond(conds) == [data |-> "ram_cond", children |-> conds]

IsEmptyCond(rel) == [data |-> "isempty_cond", rel |-> rel]

TupleExpr(elems) == [data |-> "tuple_expr", children |-> elems]

OnIndex(cond) == [data |-> "on_index", cond |-> cond]

Insert(te, rel) == [data |-> "insert_stmt", tuple_expr |-> te, rel |-> rel]

Erase(te, rel) == [data |-> "erase_stmt", tuple_expr |-> te, rel |-> rel]

\* on_index is <<>> or <<OnIndex(c)>>: has_child(tree, "on_index")
ForLoop(t, rel, on_index, inner) ==
    [data |-> "forloop", tuple_name |-> t, rel |-> rel, on_index |-> on_index, inner |-> inner]

\* break is the BREAK child: has_child(tree, "BREAK")
IfStmt(cond, on_index, break, inner) ==
    [data |-> "if_stmt", cond |-> cond, on_index |-> on_index, break |-> break, inner |-> inner]

Declare(target, aggregator, t, rel, inner) ==
    [data |-> "declare_stmt", target |-> target, aggregator |-> aggregator,
     tuple_name |-> t, rel |-> rel, inner |-> inner]

Unpack(iden, ref, inner) ==
    [data |-> "unpack_stmt", iden |-> iden, ref |-> ref, inner |-> inner]

Query(op) == [data |-> "query_stmt", op |-> op]

Debug(info, stmt) == [data |-> "debug_stmt", info |-> info, stmt |-> stmt]

Loop(body) == [data |-> "loop_stmt", body |-> body]

Clear(rel) == [data |-> "clear_stmt", rel |-> rel]

Swap(r1, r2) == [data |-> "swap_stmt", rel1 |-> r1, rel2 |-> r2]

Exit(cond) == [data |-> "exit_stmt", cond |-> cond]

\* options: the visited io_option children, a list of [key, value] pairs
Io(rel, options) == [data |-> "io_stmt", rel |-> rel, options |-> options]

Subroutine(name, stmts) == [data |-> "subroutine", name |-> name, stmts |-> stmts]

\* program: children[0] and children[-1] are not subroutines (the visitors
\* slice children[1:-1]); they are the declarations and the main block.
Program(subs) ==
    [data |-> "program",
     children |-> <<[data |-> "declarations"]>> \o subs \o <<[data |-> "main"]>>]

\* -------------------------------------------------- expressions, conditions
\* The handlers below ram statements read _bound_tuples and change nothing,
\* so each is an operator of the node and the environment bt.

\* every tuple_element_ref below an expression or condition, in visit order
RECURSIVE RefsOf(_)
RefsOf(n) ==
    CASE n.data = "tuple_element_ref" -> <<n>>
      [] n.data = "comparision" -> RefsOf(n.lhs) \o RefsOf(n.rhs)
      [] n.data = "on_index" -> RefsOf(n.cond)
      [] n.data \in {"ram_cond", "tuple_expr"} ->
            IF n.children = <<>> THEN <<>>
            ELSE RefsOf(Head(n.children)) \o RefsOf([n EXCEPT !.children = Tail(@)])
      [] OTHER -> <<>>

\* self._bound_tuples[tuple_name].attrs[int(colname)] raises IndexError
AttrIndexError(n, bt) ==
    \E k \in 1..Len(RefsOf(n)) :
        LET r == RefsOf(n)[k]
        IN r.tuple_name \in DOMAIN bt /\ ParseInt(r.col) >= Len(bt[r.tuple_name].attrs)

qualified_name(n) == Join(".", n.children)

PyRamRelname(n) ==
    LET relname == qualified_name(n.qualified_name)
        prefix == IF n.relkind = <<>> THEN ""
                  ELSE CASE n.relkind[1] = "@new_" -> "__new_"
                         [] n.relkind[1] = "@delta_" -> "__delta_"
                         [] n.relkind[1] = "@delete_" -> "__delete_"
                         [] n.relkind[1] = "@reject_" -> "__reject_"
                         [] OTHER -> ""
    IN prefix \o relname

TextualRamRelname(n) ==
    LET relname == qualified_name(n.qualified_name)
        prefix == IF n.relkind = <<>> THEN ""
                  ELSE CASE n.relkind[1] = "@new_" -> "D[i+1]"
                         [] n.relkind[1] = "@delta_" -> "D[i]"
                         [] OTHER -> ""
    IN prefix \o relname

\* the attribute's type (attrs[i][1]) taken where its name (attrs[i][0]) is meant
PyTupleElementRefType(n, bt) ==
    LET tuple_name == n.tuple_name
        colname == IF tuple_name \in DOMAIN bt
                   THEN bt[tuple_name].attrs[ParseInt(n.col) + 1][2]
                   ELSE "_" \o n.col
    IN Join(".", <<tuple_name, colname>>)

PyTupleElementRef(n, bt) ==
    LET tuple_name == n.tuple_name
        colname == IF tuple_name \in DOMAIN bt
                   THEN bt[tuple_name].attrs[ParseInt(n.col) + 1][1]
                   ELSE "_" \o n.col
    IN Join(".", <<tuple_name, colname>>)

TextualTupleElementRef(n, bt) ==
    LET tuple_name == n.tuple_name
        colname == IF tuple_name \in DOMAIN bt
                   THEN bt[tuple_name].attrs[ParseInt(n.col) + 1][1]
                   ELSE n.col
    IN Join(".", <<tuple_name, colname>>)

RECURSIVE PyVisitExpr(_, _)
RECURSIVE PyVisitAll(_, _)
\* [self.visit(c) for c in children]
PyVisitAll(children, bt) ==
    IF children = <<>> THEN <<>>
    ELSE <<PyVisitExpr(Head(children), bt)>> \o PyVisitAll(Tail(children), bt)

RECURSIVE PyBracketComplex(_, _)
PyBracketComplex(children, bt) ==
    IF children = <<>> THEN <<>>
    ELSE <<"(" \o PyVisitExpr(Head(children), bt) \o ")">> \o PyBracketComplex(Tail(children), bt)

\* PyPlanVisitor: visit of an expression, condition or relation name
PyVisitExpr(n, bt) ==
    CASE n.data = "ram_relname" -> PyRamRelname(n)
      [] n.data = "qualified_name" -> qualified_name(n)
      [] n.data = "tuple_element_ref" -> PyTupleElementRef(n, bt)
      [] n.data = "tuple_element_literal" -> n.value
      [] n.data = "comparision" ->
            PyVisitExpr(n.lhs, bt) \o " " \o (IF n.op = "=" THEN "==" ELSE n.op) \o " "
                \o PyVisitExpr(n.rhs, bt)
      [] n.data = "ram_cond" -> Join(" and ", PyBracketComplex(n.children, bt))
      [] n.data = "isempty_cond" -> PyVisitExpr(n.rel, bt) \o " == set()"
      [] n.data = "tuple_expr" -> "(" \o Join(",", PyVisitAll(n.children, bt)) \o ")"
      [] n.data = "on_index" -> PyVisitExpr(n.cond, bt)

RECURSIVE TextualVisitExpr(_, _)
RECURSIVE TextualVisitAll(_, _)
TextualVisitAll(children, bt) ==
    IF children = <<>> THEN <<>>
    ELSE <<TextualVisitExpr(Head(children), bt)>> \o TextualVisitAll(Tail(children), bt)

RECURSIVE TextualBracketComplex(_, _)
TextualBracketComplex(children, bt) ==
    IF children = <<>> THEN <<>>
    ELSE <<"(" \o TextualVisitExpr(Head(children), bt) \o ")">>
            \o TextualBracketComplex(Tail(children), bt)

\* TextualPlanVisitor: visit of an expression, condition or relation name
TextualVisitExpr(n, bt) ==
    CASE n.data = "ram_relname" -> TextualRamRelname(n)
      [] n.data = "qualified_name" -> qualified_name(n)
      [] n.data = "tuple_element_ref" -> TextualTupleElementRef(n, bt)
      [] n.data = "tuple_element_literal" -> n.value
      [] n.data = "comparision" ->
            TextualVisitExpr(n.lhs, bt) \o " " \o n.op \o " " \o TextualVisitExpr(n.rhs, bt)
      [] n.data = "ram_cond" -> Join(", ", TextualBracketComplex(n.children, bt))
      [] n.data = "isempty_cond" -> TextualVisitExpr(n.rel, bt) \o " = {}"
      [] n.data = "tuple_expr" -> "<" \o Join(",", TextualVisitAll(n.children, bt)) \o ">"
      [] n.data = "on_index" -> TextualVisitExpr(n.cond, bt)

\* ------------------------------------------------------------ Python values
None == [t |-> "none"]

Str(s) == [t |-> "str", s |-> s]

List(xs) == [t |-> "list", xs |-> xs]

\* a plan of PyPlanVisitor: {"l": str | list of str, "c": list of plans}
Dict(l, c) == [t |-> "dict", l |-> l, c |-> c]

\* PlanNode of ram_plan.py; debug_info and trailer are <<>> for None
PlanNode(text, children, seperator) ==
    [t |-> "PlanNode", text |-> text, children |-> children, debug_info |-> <<>>,
     seperator |-> seperator, trailer |-> <<>>]

EmptyDict == [x \in {} |-> None]

\* d[k] = v
DictSet(d, k, v) == [x \in DOMAIN d \cup {k} |-> IF x = k THEN v ELSE d[x]]

\* a del that removes nothing
DictKept(d, k) == d

\* del d[k]
DictDel(d, k) == [x \in DOMAIN d \ {k} |-> d[x]]

RECURSIVE DictOf(_)
\* dict(pairs): a later pair replaces an earlier one with the same key
DictOf(pairs) ==
    IF pairs = <<>> THEN EmptyDict
    ELSE LET last == pairs[Len(pairs)]
         IN DictSet(DictOf(SubSeq(pairs, 1, Len(pairs) - 1)), last[1], last[2])

\* ------------------------------------------------------------------- state
VARIABLES
    visitor,        \* the class of the visitor object
    tree,           \* the RAM tree handed to visitor.visit
    parsed,         \* history: the tree as the parser returned it
    stack,          \* the visits in progress, innermost last
    ret,            \* the value returned by the visit that finished last
    bound_tuples,   \* self._bound_tuples of the plan visitors
    plan,           \* self._plan of TextualPlanVisitor
    indexes,        \* self.indexes of IndexVisitor
    tuple_name,     \* self._tuple_name of IndexVisitor
    tuple_attrs,    \* self._tuple_attrs of IndexVisitor
    status,         \* "running", "done" (top-level visit returned) or "error"
    err,            \* the exception raised and the handler that raised it
    command,        \* the command of __main__ that is running, "" when none is
    files,          \* the paths the command was given
    use_transformed, \* the flag the command was given
    next_file,      \* the position of the command in its list of parse calls
    calls,          \* history: the parse calls made so far and how each ended
    outcome         \* "running", "returned" or "raised" for the command, "idle" when none

\* the state of the acquisition commands
acquisition == <<command, files, use_transformed, next_file, calls, outcome>>

vars == <<visitor, tree, parsed, stack, ret, bound_tuples, plan, indexes, tuple_name,
          tuple_attrs, status, err, acquisition>>

PY == "PyPlanVisitor"

TEXTUAL == "TextualPlanVisitor"

INDEX == "IndexVisitor"

\* one visit in progress: the node, whether its handler has started
\* ("enter") or is visiting children ("children"), the children still to
\* visit, the values they returned, and the handler's local strings
Frame(node) == [node |-> node, phase |-> "enter", todo |-> <<>>, acc |-> <<>>, tmp |-> <<>>]

Top == stack[Len(stack)]

Running(v, data) ==
    /\ status = "running"
    /\ stack # <<>>
    /\ visitor = v
    /\ Top.node.data = data

\* the handler goes on to visit `todo`, keeping `tmp`
Begin(todo, tmp) ==
    stack' = [stack EXCEPT ![Len(stack)] = [@ EXCEPT !.phase = "children", !.todo = todo, !.tmp = tmp]]

AtExit == Top.phase = "children" /\ Top.todo = <<>>

\* the handler returns `value` to its caller
Finish(value) ==
    /\ ret' = value
    /\ IF Len(stack) = 1
       THEN stack' = <<>> /\ status' = "done"
       ELSE /\ stack' = [SubSeq(stack, 1, Len(stack) - 1) EXCEPT ![Len(stack) - 1].acc = Append(@, value)]
            /\ status' = status

\* the handler raises; nothing catches it (__main__.py has no try)
Raise(exc) ==
    /\ status' = "error"
    /\ err' = [exc |-> exc, at |-> Top.node.data]
    /\ UNCHANGED <<acquisition, parsed, visitor, tree, stack, ret, bound_tuples, plan, indexes, tuple_name, tuple_attrs>>

\* Interpreter.visit(child): dispatch on child.data
Visit ==
    /\ status = "running"
    /\ stack # <<>>
    /\ Top.phase = "children"
    /\ Top.todo # <<>>
    /\ stack' = Append([stack EXCEPT ![Len(stack)].todo = Tail(@)], Frame(Head(Top.todo)))
    /\ UNCHANGED <<acquisition, parsed, visitor, tree, ret, bound_tuples, plan, indexes, tuple_name, tuple_attrs, status, err>>

FinishOnly(value) ==
    /\ Finish(value)
    /\ UNCHANGED <<acquisition, parsed, visitor, tree, bound_tuples, plan, indexes, tuple_name, tuple_attrs, err>>

BeginOnly(todo, tmp) ==
    /\ Begin(todo, tmp)
    /\ UNCHANGED <<acquisition, parsed, visitor, tree, ret, bound_tuples, plan, indexes, tuple_name, tuple_attrs, status, err>>

\* ------------------------------------------------------- stratum ordering
\* the exception of int(str(name).split("_")[1]), or "" when it succeeds
StratumError(name) ==
    IF Len(Split(name, "_")) < 2 THEN "IndexError"
    ELSE IF ~IsInt(Split(name, "_")[2]) THEN "ValueError"
    ELSE ""

\* extract_stratum_number
extract_stratum_number(name) == ParseInt(Split(name, "_")[2])

\* tree.children[1:-1]
Subroutines(t) == SubSeq(t.children, 2, Len(t.children) - 1)

\* -------------------------------------------------------- PyPlanVisitor
INDENT_GROUP == "   "

AsList(v) == IF v.t = "str" THEN <<v.s>> ELSE v.xs

\* _safe_prepend
SafePrepend(prefix, ls) == List(AsList(prefix) \o AsList(ls))

RECURSIVE StringifyPlan(_, _)
RECURSIVE StringifyAll(_, _)
StringifyAll(cs, prefix) ==
    IF cs = <<>> THEN <<>>
    ELSE <<IF Head(cs).t = "dict"
           THEN StringifyPlan(Head(cs), INDENT_GROUP \o prefix)
           ELSE INDENT_GROUP \o prefix \o Head(cs).s>> \o StringifyAll(Tail(cs), prefix)

\* _stringify_plan
StringifyPlan(p, prefix) ==
    LET res == IF p.l.t = "str" THEN prefix \o p.l.s
               ELSE Join("\n", [k \in 1..Len(p.l.xs) |-> prefix \o p.l.xs[k]])
    IN res \o "\n" \o Join("\n", StringifyAll(p.c, prefix))

\* program: sort tree.children[1:-1] in place, then visit them in that order
PyProgram ==
    /\ Running(PY, "program")
    /\ LET subs == Subroutines(tree)
           bad == {k \in 1..Len(subs) : StratumError(subs[k].name) # ""}
           sorted == SortedByKey([k \in 1..Len(subs) |->
                        [key |-> extract_stratum_number(subs[k].name), val |-> subs[k]]])
           children == <<tree.children[1]>> \o [k \in 1..Len(subs) |-> sorted[k].val]
                            \o <<tree.children[Len(tree.children)]>>
       IN IF Top.phase = "enter"
          THEN IF bad # {}
               THEN Raise(StratumError(subs[CHOOSE k \in bad : \A j \in bad : k <= j].name))
               ELSE /\ tree' = [tree EXCEPT !.children = children]
                    /\ Begin([k \in 1..Len(subs) |-> sorted[k].val], <<>>)
                    /\ UNCHANGED <<acquisition, parsed, visitor, ret, bound_tuples, plan, indexes, tuple_name,
                                   tuple_attrs, status, err>>
          ELSE /\ AtExit
               /\ FinishOnly(Str(Join("\n", [k \in 1..Len(Top.acc) |-> StringifyPlan(Top.acc[k], "")])))

PySubroutine ==
    /\ Running(PY, "subroutine")
    /\ IF Top.phase = "enter"
       THEN BeginOnly(Top.node.stmts, <<>>)
       ELSE /\ AtExit
            /\ FinishOnly(Dict(Str("def " \o Top.node.name \o "():"), Top.acc))

PyLoopStmt ==
    /\ Running(PY, "loop_stmt")
    /\ IF Top.phase = "enter"
       THEN BeginOnly(Top.node.body, <<>>)
       ELSE /\ AtExit
            /\ FinishOnly(Dict(Str("while True:"), Top.acc))

PyQueryStmt ==
    /\ Running(PY, "query_stmt")
    /\ IF Top.phase = "enter"
       THEN BeginOnly(<<Top.node.op>>, <<>>)
       ELSE /\ AtExit
            /\ FinishOnly(Top.acc[1])

\* exec(f"x = {info}") for the quoted one-line string literal `info`
EvalStringLiteral(tok) == SubSeq(tok, 2, Len(tok) - 1)

PyDebugStmt ==
    /\ Running(PY, "debug_stmt")
    /\ IF Top.phase = "enter"
       THEN BeginOnly(<<Top.node.stmt>>,
                      <<"\"\"\"">> \o Split(EvalStringLiteral(Top.node.info), "\n") \o <<"\"\"\"">>)
       ELSE /\ AtExit
            /\ IF Top.acc[1].t # "dict"
               THEN Raise("TypeError")
               ELSE FinishOnly([Top.acc[1] EXCEPT !.l = SafePrepend(List(Top.tmp), @)])

PyClearStmt ==
    /\ Running(PY, "clear_stmt")
    /\ FinishOnly(Str(PyVisitExpr(Top.node.rel, bound_tuples) \o " = set()"))

PySwapStmt ==
    /\ Running(PY, "swap_stmt")
    /\ FinishOnly(Str("swap(" \o PyVisitExpr(Top.node.rel1, bound_tuples) \o ", "
                        \o PyVisitExpr(Top.node.rel2, bound_tuples) \o ")"))

PyExitStmt ==
    /\ Running(PY, "exit_stmt")
    /\ IF AttrIndexError(Top.node.cond, bound_tuples)
       THEN Raise("IndexError")
       ELSE FinishOnly(Str("if " \o PyVisitExpr(Top.node.cond, bound_tuples) \o ": break"))

\* io_options.get(key, default)
DictGet(d, k, default) == IF k \in DOMAIN d THEN d[k] ELSE default

PyIoStmt ==
    /\ Running(PY, "io_stmt")
    /\ LET relname == PyVisitExpr(Top.node.rel, bound_tuples)
           io_options == DictOf(Top.node.options)
           operation == io_options["operation"]
           named == RemoveSuffix(DictGet(io_options, "filename", relname), ".dl") # relname
           fname == IF named THEN ", filename=" \o io_options["filename"] ELSE ""
           delim == Repr(DictGet(io_options, "delimiter", "\t"))
       IN IF "operation" \notin DOMAIN io_options THEN Raise("KeyError")
          ELSE IF operation \notin {"input", "output"} THEN Raise("RuntimeError")
          ELSE IF named /\ "filename" \notin DOMAIN io_options THEN Raise("KeyError")
          ELSE FinishOnly(Str(operation \o "(" \o relname \o ", delim=" \o delim \o fname \o ")"))

PyDeclareStmt ==
    /\ Running(PY, "declare_stmt")
    /\ LET n == Top.node
       IN IF Top.phase = "enter"
          THEN IF AttrIndexError(n.target, bound_tuples)
               THEN Raise("IndexError")
               ELSE BeginOnly(<<n.inner>>,
                        <<PyVisitExpr(n.target, bound_tuples) \o " = " \o n.aggregator \o "("
                            \o n.tuple_name \o " for " \o n.tuple_name \o " in "
                            \o PyVisitExpr(n.rel, bound_tuples) \o ")">>)
          ELSE /\ AtExit
               /\ FinishOnly(Dict(Str(Top.tmp[1]), <<Top.acc[1]>>))

PyForloop ==
    /\ Running(PY, "forloop")
    /\ LET n == Top.node
           ram_relname == PyVisitExpr(n.rel, bound_tuples)
           relname == PyVisitExpr(n.rel.qualified_name, bound_tuples)
           bound == DictSet(bound_tuples, n.tuple_name, rels[relname])
           scan == IF n.on_index # <<>>
                   THEN "index_scan(" \o ram_relname \o ", lambda " \o n.tuple_name \o ": "
                            \o PyVisitExpr(n.on_index[1], bound) \o ")"
                   ELSE ram_relname
       IN IF Top.phase = "enter"
          THEN IF relname \notin DOMAIN rels THEN Raise("KeyError")
               ELSE IF n.on_index # <<>> /\ AttrIndexError(n.on_index[1], bound)
               THEN /\ bound_tuples' = bound
                    /\ status' = "error"
                    /\ err' = [exc |-> "IndexError", at |-> "forloop"]
                    /\ UNCHANGED <<acquisition, parsed, visitor, tree, stack, ret, plan, indexes, tuple_name, tuple_attrs>>
               ELSE /\ bound_tuples' = bound
                    /\ Begin(<<n.inner>>, <<"for " \o n.tuple_name \o " in " \o scan \o ":">>)
                    /\ UNCHANGED <<acquisition, parsed, visitor, tree, ret, plan, indexes, tuple_name, tuple_attrs,
                                   status, err>>
          ELSE /\ AtExit
               /\ IF n.tuple_name \notin DOMAIN bound_tuples
                  THEN Raise("KeyError")
                  ELSE /\ bound_tuples' = DictDel(bound_tuples, n.tuple_name)
                       /\ Finish(Dict(Str(Top.tmp[1]), <<Top.acc[1]>>))
                       /\ UNCHANGED <<acquisition, parsed, visitor, tree, plan, indexes, tuple_name, tuple_attrs, err>>

PyIfStmt ==
    /\ Running(PY, "if_stmt")
    /\ LET n == Top.node
           if_cond == "if " \o PyVisitExpr(n.cond, bound_tuples)
                        \o (IF n.on_index # <<>>
                            THEN " and index_cond(lambda : "
                                    \o PyVisitExpr(n.on_index[1], bound_tuples) \o ")"
                            ELSE "")
                        \o ":"
           p == Top.acc[1]
       IN IF Top.phase = "enter"
          THEN IF AttrIndexError(n.cond, bound_tuples)
                    \/ (n.on_index # <<>> /\ AttrIndexError(n.on_index[1], bound_tuples))
               THEN Raise("IndexError")
               ELSE BeginOnly(<<n.inner>>, <<if_cond>>)
          ELSE /\ AtExit
               /\ IF n.break
                  THEN IF p.t = "str"
                       THEN FinishOnly(Dict(SafePrepend(Str(Top.tmp[1] \o " break"), p), <<>>))
                       ELSE FinishOnly([p EXCEPT !.l = SafePrepend(Str(Top.tmp[1] \o " break"), @)])
                  ELSE FinishOnly(Dict(Str(Top.tmp[1]), <<p>>))

PyUnpackStmt ==
    /\ Running(PY, "unpack_stmt")
    /\ LET n == Top.node
           p == Top.acc[1]
       IN IF Top.phase = "enter"
          THEN IF AttrIndexError(n.ref, bound_tuples)
               THEN Raise("IndexError")
               ELSE BeginOnly(<<n.inner>>, <<n.iden \o " = " \o PyVisitExpr(n.ref, bound_tuples)>>)
          ELSE /\ AtExit
               /\ IF p.t = "str"
                  THEN FinishOnly(Dict(SafePrepend(Str(Top.tmp[1]), p), <<>>))
                  ELSE FinishOnly([p EXCEPT !.l = SafePrepend(Str(Top.tmp[1]), @)])

PyInsertStmt ==
    /\ Running(PY, "insert_stmt")
    /\ IF AttrIndexError(Top.node.tuple_expr, bound_tuples)
       THEN Raise("IndexError")
       ELSE FinishOnly(Str(PyVisitExpr(Top.node.rel, bound_tuples) \o ".add("
                            \o PyVisitExpr(Top.node.tuple_expr, bound_tuples) \o ")"))

PyEraseStmt ==
    /\ Running(PY, "erase_stmt")
    /\ IF AttrIndexError(Top.node.tuple_expr, bound_tuples)
       THEN Raise("IndexError")
       ELSE FinishOnly(Str(PyVisitExpr(Top.node.rel, bound_tuples) \o ".remove("
                            \o PyVisitExpr(Top.node.tuple_expr, bound_tuples) \o ")"))

\* ----------------------------------------------------- TextualPlanVisitor
\* self._plan.children.append(PlanNode(text, []))
AppendPlan(text) == plan' = [plan EXCEPT !.children = Append(@, PlanNode(text, <<>>, ""))]

\* program: visit tree.children[1:-1] in tree order, then sort the results
TextualProgram ==
    /\ Running(TEXTUAL, "program")
    /\ LET acc == Top.acc
           bad == {k \in 1..Len(acc) : StratumError(acc[k].text) # ""}
           sorted == SortedByKey([k \in 1..Len(acc) |->
                        [key |-> extract_stratum_number(acc[k].text), val |-> acc[k]]])
       IN IF Top.phase = "enter"
          THEN BeginOnly(Subroutines(tree), <<>>)
          ELSE /\ AtExit
               /\ IF bad # {}
                  THEN Raise(StratumError(acc[CHOOSE k \in bad : \A j \in bad : k <= j].text))
                  ELSE FinishOnly(PlanNode("PROGRAM", [k \in 1..Len(acc) |-> sorted[k].val], ""))

TextualSubroutine ==
    /\ Running(TEXTUAL, "subroutine")
    /\ IF Top.phase = "enter"
       THEN BeginOnly(Top.node.stmts, <<>>)
       ELSE /\ AtExit
            /\ FinishOnly(PlanNode(Top.node.name, Top.acc, ";"))

TextualLoopStmt ==
    /\ Running(TEXTUAL, "loop_stmt")
    /\ IF Top.phase = "enter"
       THEN BeginOnly(Top.node.body, <<>>)
       ELSE /\ AtExit
            /\ FinishOnly(PlanNode("FOR i in N", Top.acc, ""))

TextualQueryStmt ==
    /\ Running(TEXTUAL, "query_stmt")
    /\ IF Top.phase = "enter"
       THEN /\ plan' = PlanNode("", <<>>, "")
            /\ Begin(<<Top.node.op>>, <<>>)
            /\ UNCHANGED <<acquisition, parsed, visitor, tree, ret, bound_tuples, indexes, tuple_name, tuple_attrs,
                           status, err>>
       ELSE /\ AtExit
            /\ FinishOnly(Top.acc[1])

TextualDebugStmt ==
    /\ Running(TEXTUAL, "debug_stmt")
    /\ IF Top.phase = "enter"
       THEN BeginOnly(<<Top.node.stmt>>, <<>>)
       ELSE /\ AtExit
            /\ IF Top.acc[1].t # "PlanNode"
               THEN Raise("AttributeError")
               ELSE FinishOnly([Top.acc[1] EXCEPT !.debug_info = <<Top.node.info>>])

TextualClearStmt ==
    /\ Running(TEXTUAL, "clear_stmt")
    /\ FinishOnly(PlanNode(TextualVisitExpr(Top.node.rel, bound_tuples) \o " = {}", <<>>, ""))

TextualSwapStmt ==
    /\ Running(TEXTUAL, "swap_stmt")
    /\ LET rel1 == TextualVisitExpr(Top.node.rel1, bound_tuples)
           rel2 == TextualVisitExpr(Top.node.rel2, bound_tuples)
       IN FinishOnly(PlanNode(rel1 \o ", " \o rel2 \o " = " \o rel2 \o ", " \o rel1, <<>>, ""))

TextualExitStmt ==
    /\ Running(TEXTUAL, "exit_stmt")
    /\ IF AttrIndexError(Top.node.cond, bound_tuples)
       THEN Raise("IndexError")
       ELSE FinishOnly(PlanNode("BREAK " \o TextualVisitExpr(Top.node.cond, bound_tuples), <<>>, ""))

TextualIoStmt ==
    /\ Running(TEXTUAL, "io_stmt")
    /\ LET relname == TextualVisitExpr(Top.node.rel, bound_tuples)
           io_options == DictOf(Top.node.options)
           operation == IF io_options["operation"] = "input" THEN "INPUT FROM" ELSE "OUTPUT TO"
           named == RemoveSuffix(DictGet(io_options, "filename", relname), ".dl") # relname
           fname == IF named THEN " fname " \o io_options["filename"] ELSE ""
           delim == Repr(DictGet(io_options, "delimiter", "\t"))
       IN IF "operation" \notin DOMAIN io_options THEN Raise("KeyError")
          ELSE IF io_options["operation"] \notin {"input", "output"} THEN Raise("RuntimeError")
          ELSE IF named /\ "filename" \notin DOMAIN io_options THEN Raise("KeyError")
          ELSE FinishOnly(PlanNode(operation \o " " \o relname \o " delim " \o delim \o fname, <<>>, ""))

TextualDeclareStmt ==
    /\ Running(TEXTUAL, "declare_stmt")
    /\ LET n == Top.node
       IN IF Top.phase = "enter"
          THEN IF plan = None THEN Raise("AssertionError")
               ELSE IF AttrIndexError(n.target, bound_tuples) THEN Raise("IndexError")
               ELSE /\ AppendPlan(TextualVisitExpr(n.target, bound_tuples) \o " = " \o n.aggregator
                                    \o "{" \o n.tuple_name \o " in "
                                    \o TextualVisitExpr(n.rel, bound_tuples) \o "}")
                    /\ Begin(<<n.inner>>, <<>>)
                    /\ UNCHANGED <<acquisition, parsed, visitor, tree, ret, bound_tuples, indexes, tuple_name,
                                   tuple_attrs, status, err>>
          ELSE /\ AtExit
               /\ FinishOnly(Top.acc[1])

TextualForloop ==
    /\ Running(TEXTUAL, "forloop")
    /\ LET n == Top.node
           ram_relname == TextualVisitExpr(n.rel, bound_tuples)
           relname == TextualVisitExpr(n.rel.qualified_name, bound_tuples)
           bound == DictSet(bound_tuples, n.tuple_name, rels[relname])
           cond == IF n.on_index # <<>>
                   THEN " if " \o TextualVisitExpr(n.on_index[1], bound)
                   ELSE ""
       IN IF Top.phase = "enter"
          THEN IF plan = None THEN Raise("AssertionError")
               ELSE IF relname \notin DOMAIN rels THEN Raise("KeyError")
               ELSE IF n.on_index # <<>> /\ AttrIndexError(n.on_index[1], bound)
               THEN /\ bound_tuples' = bound
                    /\ status' = "error"
                    /\ err' = [exc |-> "IndexError", at |-> "forloop"]
                    /\ UNCHANGED <<acquisition, parsed, visitor, tree, stack, ret, plan, indexes, tuple_name, tuple_attrs>>
               ELSE /\ bound_tuples' = bound
                    /\ AppendPlan("for " \o n.tuple_name \o " in " \o ram_relname \o cond)
                    /\ Begin(<<n.inner>>, <<>>)
                    /\ UNCHANGED <<acquisition, parsed, visitor, tree, ret, indexes, tuple_name, tuple_attrs, status, err>>
          ELSE /\ AtExit
               /\ IF n.tuple_name \notin DOMAIN bound_tuples
                  THEN Raise("KeyError")
                  ELSE /\ bound_tuples' = DictDel(bound_tuples, n.tuple_name)
                       /\ Finish(Top.acc[1])
                       /\ UNCHANGED <<acquisition, parsed, visitor, tree, plan, indexes, tuple_name, tuple_attrs, err>>

TextualIfStmt ==
    /\ Running(TEXTUAL, "if_stmt")
    /\ LET n == Top.node
           index_cond == IF n.on_index # <<>>
                         THEN " using index " \o TextualVisitExpr(n.on_index[1], bound_tuples)
                         ELSE ""
       IN IF Top.phase = "enter"
          THEN IF plan = None THEN Raise("AssertionError")
               ELSE IF n.break THEN BeginOnly(<<n.inner>>, <<>>)
               ELSE IF AttrIndexError(n.cond, bound_tuples)
                        \/ (n.on_index # <<>> /\ AttrIndexError(n.on_index[1], bound_tuples))
               THEN Raise("IndexError")
               ELSE /\ AppendPlan("if " \o TextualVisitExpr(n.cond, bound_tuples) \o index_cond)
                    /\ Begin(<<n.inner>>, <<>>)
                    /\ UNCHANGED <<acquisition, parsed, visitor, tree, ret, bound_tuples, indexes, tuple_name,
                                   tuple_attrs, status, err>>
          ELSE /\ AtExit
               /\ FinishOnly(Top.acc[1])

TextualUnpackStmt ==
    /\ Running(TEXTUAL, "unpack_stmt")
    /\ LET n == Top.node
       IN IF Top.phase = "enter"
          THEN IF plan = None THEN Raise("AssertionError")
               ELSE IF AttrIndexError(n.ref, bound_tuples) THEN Raise("IndexError")
               ELSE /\ AppendPlan(n.iden \o " := " \o TextualVisitExpr(n.ref, bound_tuples))
                    /\ Begin(<<n.inner>>, <<>>)
                    /\ UNCHANGED <<acquisition, parsed, visitor, tree, ret, bound_tuples, indexes, tuple_name,
                                   tuple_attrs, status, err>>
          ELSE /\ AtExit
               /\ FinishOnly(Top.acc[1])

\* insert_stmt: the leaf closes the plan built on the way down and hands it up
TextualInsertStmt ==
    /\ Running(TEXTUAL, "insert_stmt")
    /\ LET tuple_expr == TextualVisitExpr(Top.node.tuple_expr, bound_tuples)
           ram_relname == TextualVisitExpr(Top.node.rel, bound_tuples)
       IN IF plan = None THEN Raise("AssertionError")
          ELSE IF AttrIndexError(Top.node.tuple_expr, bound_tuples) THEN Raise("IndexError")
          ELSE /\ Finish([plan EXCEPT
                            !.text = ram_relname \o " = " \o ram_relname \o " U {" \o tuple_expr \o " | ",
                            !.trailer = <<"}">>])
               /\ plan' = None
               /\ UNCHANGED <<acquisition, parsed, visitor, tree, bound_tuples, indexes, tuple_name, tuple_attrs, err>>

\* TextualPlanVisitor defines no erase_stmt: Interpreter.__default__ is
\* visit_children, which returns the list of the children's values
TextualEraseStmt ==
    /\ Running(TEXTUAL, "erase_stmt")
    /\ IF AttrIndexError(Top.node.tuple_expr, bound_tuples)
       THEN Raise("IndexError")
       ELSE FinishOnly(List(<<TextualVisitExpr(Top.node.tuple_expr, bound_tuples),
                              TextualVisitExpr(Top.node.rel, bound_tuples)>>))

\* ------------------------------------------------------------ IndexVisitor
SouffleBTreeIndex(relname, attrs) == [relname |-> relname, attrs |-> attrs]

\* tuple_element_ref over every reference of the subtrees `exprs`, in visit
\* order: the columns added to self._tuple_attrs while self._tuple_name = name
RECURSIVE CollectedRefs(_, _)
CollectedRefs(refs, name) ==
    IF refs = <<>> THEN {}
    ELSE (IF name = <<Head(refs).tuple_name>> THEN {ParseInt(Head(refs).col)} ELSE {})
            \cup CollectedRefs(Tail(refs), name)

\* the condition and expression children a handler-less node hands to
\* visit_children (none of them contains a forloop)
ExprChildren(n) ==
    CASE n.data = "exit_stmt" -> <<n.cond>>
      [] n.data = "if_stmt" -> <<n.cond>> \o n.on_index
      [] n.data = "declare_stmt" -> <<n.target>>
      [] n.data = "unpack_stmt" -> <<n.ref>>
      [] n.data \in {"insert_stmt", "erase_stmt"} -> <<n.tuple_expr>>
      [] OTHER -> <<>>

\* the statement and operation children a handler-less node hands to
\* visit_children
StmtChildren(n) ==
    CASE n.data = "program" -> n.children
      [] n.data = "subroutine" -> n.stmts
      [] n.data = "loop_stmt" -> n.body
      [] n.data = "query_stmt" -> <<n.op>>
      [] n.data = "debug_stmt" -> <<n.stmt>>
      [] n.data \in {"if_stmt", "declare_stmt", "unpack_stmt"} -> <<n.inner>>
      [] OTHER -> <<>>

RECURSIVE RefsOfAll(_)
RefsOfAll(exprs) == IF exprs = <<>> THEN <<>> ELSE RefsOf(Head(exprs)) \o RefsOfAll(Tail(exprs))

\* the accumulator is left as it was after the visit of on_index
KeepTupleAttrs(collected) == collected

\* self._tuple_attrs = set() at the end of _add_index
ResetTupleAttrs(collected) == {}

\* forloop, with _add_index inlined: the visit of on_index runs no handler
\* but tuple_element_ref, so it is one step
\* self.indexes[relname], a defaultdict, read before the relation is checked
DefaultTouched(ix, relname) == DictSet(ix, relname, <<>>)

\* self.indexes when _add_index fails on a relation outside the catalog:
\* the failure comes before self.indexes[relname] is evaluated
FailedAdd(ix, relname) == ix

IndexForloop ==
    /\ Running(INDEX, "forloop")
    /\ LET n == Top.node
           relname == qualified_name(n.rel.qualified_name)
           collected == tuple_attrs \cup CollectedRefs(RefsOf(n.on_index[1]), <<n.tuple_name>>)
           cols == SortedSet(collected)
           attrs == [k \in 1..Len(cols) |-> rels[relname].attrs[cols[k] + 1]]
           old == IF relname \in DOMAIN indexes THEN indexes[relname] ELSE <<>>
       IN IF Top.phase = "enter"
          THEN IF n.on_index = <<>>
               THEN BeginOnly(<<n.inner>>, <<>>)
               ELSE IF relname \notin DOMAIN rels
               THEN \* the assert, or with asserts compiled out the lookup
                    \* self.rels[relname] after the condition was visited
                    /\ tuple_name' = <<n.tuple_name>>
                    /\ status' = "error"
                    /\ \/ err' = [exc |-> "AssertionError", at |-> "forloop"] /\ tuple_attrs' = tuple_attrs
                       \/ err' = [exc |-> "KeyError", at |-> "forloop"] /\ tuple_attrs' = collected
                    /\ indexes' = FailedAdd(indexes, relname)
                    /\ UNCHANGED <<acquisition, parsed, visitor, tree, stack, ret, bound_tuples, plan>>
               ELSE IF \E c \in collected : c >= Len(rels[relname].attrs)
               THEN /\ tuple_name' = <<n.tuple_name>>
                    /\ tuple_attrs' = collected
                    /\ status' = "error"
                    /\ err' = [exc |-> "IndexError", at |-> "forloop"]
                    /\ UNCHANGED <<acquisition, parsed, visitor, tree, stack, ret, bound_tuples, plan, indexes>>
               ELSE /\ indexes' = DictSet(indexes, relname,
                                          Append(old, SouffleBTreeIndex(relname, attrs)))
                    /\ tuple_name' = <<>>
                    /\ tuple_attrs' = ResetTupleAttrs(collected)
                    /\ Begin(<<n.inner>>, <<>>)
                    /\ UNCHANGED <<acquisition, parsed, visitor, tree, ret, bound_tuples, plan, status, err>>
          ELSE /\ AtExit
               /\ FinishOnly(None)

\* Interpreter.__default__ (visit_children) for every node kind IndexVisitor
\* has no handler for
IndexDefault ==
    /\ status = "running"
    /\ stack # <<>>
    /\ visitor = INDEX
    /\ Top.node.data # "forloop"
    /\ IF Top.phase = "enter"
       THEN /\ tuple_attrs' = tuple_attrs \cup CollectedRefs(RefsOfAll(ExprChildren(Top.node)), tuple_name)
            /\ Begin(StmtChildren(Top.node), <<>>)
            /\ UNCHANGED <<acquisition, parsed, visitor, tree, ret, bound_tuples, plan, indexes, tuple_name, status, err>>
       ELSE /\ AtExit
            /\ FinishOnly(None)

\* ------------------------------------------------------------------ inputs
\* All sequences over S of length at most n
SeqsUpTo(S, n) == UNION {[1..k -> S] : k \in 0..n}

R == RamRelname("", <<"R">>)

TupleNames == {"t0", "t1"}

\* an on-index condition naming columns 2 and 0 of t, in that order, and a
\* column of another tuple
CondA(t) ==
    RamCond(<<Comparision(Ref(t, "2"), "=", Literal("1")),
              Comparision(Ref(t, "0"), "=", Ref(IF t = "t0" THEN "t1" ELSE "t0", "1"))>>)

\* an on-index condition naming column 1 of t twice
CondB(t) == RamCond(<<Comparision(Ref(t, "1"), "=", Ref(t, "1"))>>)

Guard == RamCond(<<Comparision(Ref("t0", "0"), "<", Literal("5"))>>)

Terminals ==
    {Insert(TupleExpr(<<Ref("t0", "0"), Ref("t1", "1")>>), R),
     Erase(TupleExpr(<<Ref("t0", "0"), Ref("t1", "1")>>), RamRelname("@new_", <<"R">>))}

\* the operations that can stand around `inner`
Around(inner) ==
    {ForLoop("t0", R, <<>>, inner),
     ForLoop("t0", RamRelname("", <<"S">>), <<OnIndex(CondA("t0"))>>, inner),
     ForLoop("t1", RamRelname("@delta_", <<"R">>), <<OnIndex(CondB("t1"))>>, inner),
     ForLoop("t0", R, <<OnIndex(CondA("t0"))>>, inner),
     ForLoop("t0", RamRelname("", <<"T">>), <<OnIndex(CondB("t0"))>>, inner),
     IfStmt(Guard, <<>>, FALSE, inner),
     IfStmt(Guard, <<OnIndex(CondB("t0"))>>, FALSE, inner),
     IfStmt(Guard, <<>>, TRUE, inner),
     Declare(Ref("t1", "0"), "COUNT", "t1", RamRelname("", <<"S">>), inner),
     Unpack("t1", Ref("t0", "1"), inner)}

\* the operation chains with at most d operations around the terminal
RECURSIVE Operations(_)
Operations(d) ==
    IF d = 0 THEN Terminals
    ELSE Operations(d - 1) \cup UNION {Around(inner) : inner \in Operations(d - 1)}

RelKinds == {"", "@delta_", "@new_", "@delete_", "@reject_"}

SimpleStmts ==
    {Clear(RamRelname(k, <<"R">>)) : k \in RelKinds}
        \cup {Swap(R, RamRelname("@new_", <<"R">>)),
              Exit(RamCond(<<IsEmptyCond(RamRelname("@new_", <<"R">>))>>))}

IoOptions ==
    {<<op>> \o fn \o dl :
        op \in {<<"operation", "input">>, <<"operation", "output">>, <<"operation", "append">>},
        fn \in {<<>>} \cup {<< <<"filename", f>> >> :
                              f \in {"orders.dl", "orders_v2.facts", "orders", "a.dl"}},
        dl \in {<<>>, << <<"delimiter", ",">> >>}}

IoStmts ==
    {Io(RamRelname("", q), o) : q \in {<<"orders">>, <<"a", "dl">>}, o \in IoOptions}

Wrappable ==
    {Query(Insert(TupleExpr(<<Literal("1")>>), R)),
     Query(Erase(TupleExpr(<<Literal("1")>>), R)),
     Query(ForLoop("t0", R, <<>>, Insert(TupleExpr(<<Ref("t0", "0")>>), R))),
     Loop(<<Clear(R)>>),
     Clear(R),
     Swap(R, RamRelname("@new_", <<"R">>)),
     Exit(RamCond(<<IsEmptyCond(R)>>)),
     Io(R, << <<"operation", "output">> >>)}

DebugStmts ==
    {Debug("\"r(x) :- s(x).\"", st) : st \in Wrappable}
        \cup {Debug("\"outer\"", Debug("\"inner\"", st)) : st \in Wrappable}

BodyStmts ==
    {Clear(R),
     Query(ForLoop("t0", R, <<OnIndex(CondA("t0"))>>, Insert(TupleExpr(<<Ref("t0", "0")>>), R))),
     Query(ForLoop("t1", R, <<OnIndex(CondB("t1"))>>, Insert(TupleExpr(<<Ref("t1", "0")>>), R))),
     Exit(RamCond(<<IsEmptyCond(R)>>))}

Bodies == SeqsUpTo(BodyStmts, MaxBody)

SubNames == {"stratum_0", "stratum_1", "stratum_1_b", "stratum_2", "stratum_10", "init"}

Programs ==
    {Program(<<Subroutine("stratum_0", <<st>>)>>) :
        st \in {Query(o) : o \in Operations(MaxDepth)} \cup SimpleStmts \cup IoStmts \cup DebugStmts}
    \cup {Program(<<Subroutine("stratum_0", b)>>) : b \in Bodies}
    \cup {Program(<<Subroutine("stratum_0", <<Loop(b)>>)>>) : b \in Bodies}
    \cup {Program([k \in 1..Len(ns) |-> Subroutine(ns[k], <<Clear(R)>>)]) :
            ns \in SeqsUpTo(SubNames, MaxSubs)}

\* ----------------------------------------------------------- specification
\* __init__ of the three visitors, then visitor.visit(tree)
Init ==
    /\ visitor \in {PY, TEXTUAL, INDEX}
    /\ tree \in Programs
    /\ parsed = tree
    /\ stack = <<Frame(tree)>>
    /\ ret = None
    /\ bound_tuples = EmptyDict
    /\ plan = None
    /\ indexes = EmptyDict
    /\ tuple_name = <<>>
    /\ tuple_attrs = {}
    /\ status = "running"
    /\ err = [exc |-> "", at |-> ""]
    /\ command = ""
    /\ files = <<>>
    /\ use_transformed = FALSE
    /\ next_file = 1
    /\ calls = <<>>
    /\ outcome = "idle"

Next ==
    \/ Visit
    \/ PyProgram \/ PySubroutine \/ PyLoopStmt \/ PyQueryStmt \/ PyDebugStmt
    \/ PyClearStmt \/ PySwapStmt \/ PyExitStmt \/ PyIoStmt
    \/ PyDeclareStmt \/ PyForloop \/ PyIfStmt \/ PyUnpackStmt
    \/ PyInsertStmt \/ PyEraseStmt
    \/ TextualProgram \/ TextualSubroutine \/ TextualLoopStmt \/ TextualQueryStmt
    \/ TextualDebugStmt \/ TextualClearStmt \/ TextualSwapStmt \/ TextualExitStmt
    \/ TextualIoStmt \/ TextualDeclareStmt \/ TextualForloop \/ TextualIfStmt
    \/ TextualUnpackStmt \/ TextualInsertStmt \/ TextualEraseStmt
    \/ IndexForloop \/ IndexDefault

Spec == Init /\ [][Next]_vars

(***************************************************************************)
(* Acquisition: parsers/ram.py, parsers/souffle.py and the commands of     *)
(* __main__.py that call them.  A path is the sequence of its segments.    *)
(* What a subprocess does with a file, and whether the text it wrote       *)
(* parses, are the environment's choice at each call.                      *)
(***************************************************************************)

\* the most files a command is given
MaxFiles == 3

\* the exit codes a subprocess ends with
ExitCodes == {0, 1, 2}

Paths == {<<"a.dl">>, <<"proj", "b.dl">>}

\* os.path.basename
Basename(path) == path[Len(path)]

\* the close() of an os.popen object: None when the subprocess exited with
\* 0, else its wait status, the exit code shifted left one byte
PopenClose(exit) == IF exit = 0 THEN <<>> ELSE <<exit * 256>>

\* a parse call that returned the tree
Returns(module, path, transformed, exit) ==
    [module |-> module, path |-> path, use_transformed |-> transformed, exit |-> exit,
     exc |-> "", fname |-> "", ecode |-> <<>>]

\* a parse call that raised
Raises(module, path, transformed, exit, exc, fname, ecode) ==
    [module |-> module, path |-> path, use_transformed |-> transformed, exit |-> exit,
     exc |-> exc, fname |-> fname, ecode |-> ecode]

\* _parser.parse(src): the tree, or lark's error when src does not parse
LarkParse(module, path, transformed, exit, parses) ==
    IF parses THEN Returns(module, path, transformed, exit)
    ELSE Raises(module, path, transformed, exit, "UnexpectedInput", "", <<>>)

\* ram.parse: raises when close() returned something truthy
RamParse(path, transformed, exit, parses) ==
    LET ecode == PopenClose(exit)
    IN IF ecode # <<>> /\ ecode # <<0>>
       THEN Raises("ram", path, transformed, exit, "SouffleError", Basename(path), ecode)
       ELSE LarkParse("ram", path, transformed, exit, parses)

\* souffle.parse: raises when close() returned something equal to 0
SouffleParse(path, transformed, exit, parses) ==
    LET ecode == PopenClose(exit)
    IN IF ecode = <<0>>
       THEN Raises("souffle", path, transformed, exit,
                   IF transformed THEN "SouffleError" ELSE "PreprocessorError",
                   Basename(path), ecode)
       ELSE LarkParse("souffle", path, transformed, exit, parses)

\* the variables of the visitors, which the commands modelled here leave alone
visiting == <<visitor, tree, parsed, stack, ret, bound_tuples, plan, indexes, tuple_name,
              tuple_attrs, status, err>>

\* the command records the call and goes on, or ends with the call's exception
AfterCall(call) ==
    /\ calls' = Append(calls, call)
    /\ IF call.exc = ""
       THEN next_file' = next_file + 1 /\ outcome' = outcome
       ELSE next_file' = next_file /\ outcome' = "raised"
    /\ UNCHANGED <<command, files, use_transformed, visiting>>

\* parse_files: one round of the loop over files, or its end
ParseFiles ==
    /\ command = "parse_files" /\ outcome = "running"
    /\ IF next_file <= Len(files)
       THEN \E exit \in ExitCodes, parses \in BOOLEAN :
                AfterCall(SouffleParse(files[next_file], use_transformed, exit, parses))
       ELSE /\ outcome' = "returned"
            /\ UNCHANGED <<command, files, use_transformed, next_file, calls, visiting>>

\* indexes: the schema source, then the RAM text, then on to the visitors
Indexes ==
    /\ command = "indexes" /\ outcome = "running"
    /\ CASE next_file = 1 ->
                \E exit \in ExitCodes, parses \in BOOLEAN :
                    AfterCall(SouffleParse(files[1], TRUE, exit, parses))
         [] next_file = 2 ->
                \E exit \in ExitCodes, parses \in BOOLEAN :
                    AfterCall(RamParse(files[1], TRUE, exit, parses))
         [] OTHER ->
                /\ outcome' = "returned"
                /\ UNCHANGED <<command, files, use_transformed, next_file, calls, visiting>>

AcquireInit ==
    /\ \/ /\ command = "parse_files"
          /\ files \in SeqsUpTo(Paths, MaxFiles)
          /\ use_transformed \in BOOLEAN
       \/ /\ command = "indexes"
          /\ files \in {<<p>> : p \in Paths}
          /\ use_transformed = TRUE
    /\ next_file = 1
    /\ calls = <<>>
    /\ outcome = "running"
    /\ visitor = INDEX
    /\ tree = Program(<<>>)
    /\ parsed = tree
    /\ stack = <<>>
    /\ ret = None
    /\ bound_tuples = EmptyDict
    /\ plan = None
    /\ indexes = EmptyDict
    /\ tuple_name = <<>>
    /\ tuple_attrs = {}
    /\ status = "idle"
    /\ err = [exc |-> "", at |-> ""]

AcquireNext == ParseFiles \/ Indexes

AcquireSpec == AcquireInit /\ [][AcquireNext]_vars

\* ------------------------------------------------------------- properties
PlanVisitors == {PY, TEXTUAL}

Returned(v) == status = "done" /\ visitor = v

\* the names of the subroutines in the order of the rendered document:
\* the "def <name>():" lines of the text PyPlanVisitor returns, the texts of
\* the children of the PROGRAM node TextualPlanVisitor returns
IsDefLine(l) == Len(l) >= 7 /\ SubSeq(l, 1, 4) = "def " /\ SubSeq(l, Len(l) - 2, Len(l)) = "():"

RenderedNames ==
    IF visitor = PY
    THEN LET defs == SelectSeq(Split(ret.s, "\n"), IsDefLine)
         IN [k \in 1..Len(defs) |-> SubSeq(defs[k], 5, Len(defs[k]) - 3)]
    ELSE [k \in 1..Len(ret.children) |-> ret.children[k].text]

ParsedNames == [k \in 1..Len(Subroutines(parsed)) |-> Subroutines(parsed)[k].name]

StratumOf(name) == ParseInt(Split(name, "_")[2])

\* the names of `names` whose stratum number is n, in order
RECURSIVE OfStratum(_, _)
OfStratum(names, n) ==
    IF names = <<>> THEN <<>>
    ELSE (IF StratumOf(Head(names)) = n THEN <<Head(names)>> ELSE <<>>)
            \o OfStratum(Tail(names), n)

\* C1: in both renderers the subroutines of the returned document are in
\* non-decreasing order of the integer in the second "_"-segment of their
\* names, whatever the parse order, and the subroutines of one stratum
\* number keep their parse order.
C1_StratumOrder ==
    (status = "done" /\ visitor \in PlanVisitors) =>
        /\ Len(RenderedNames) = Len(ParsedNames)
        /\ \A i, j \in 1..Len(RenderedNames) :
                i < j => StratumOf(RenderedNames[i]) <= StratumOf(RenderedNames[j])
        /\ \A k \in 1..Len(ParsedNames) :
                OfStratum(RenderedNames, StratumOf(ParsedNames[k]))
                    = OfStratum(ParsedNames, StratumOf(ParsedNames[k]))

\* a document of three subroutines parsed out of stratum order with two
\* names of one stratum number, declared after the later stratum
C1_Witness ==
    /\ Returned(PY)
    /\ ParsedNames = <<"stratum_10", "stratum_1_b", "stratum_1">>
    /\ RenderedNames = <<"stratum_1_b", "stratum_1", "stratum_10">>

\* the k-th smallest element of a set of ints
Kth(S, k) == CHOOSE c \in S : Cardinality({x \in S : x < c}) = k - 1

\* the columns i such that Ref(t, i) occurs in the on-index condition of
\* the forloop l, t being the tuple l binds
OwnColumns(l) ==
    {ParseInt(RefsOf(l.on_index[1])[k].col) :
        k \in {j \in 1..Len(RefsOf(l.on_index[1])) :
                    RefsOf(l.on_index[1])[j].tuple_name = l.tuple_name}}

\* the descriptor the claims ask for the forloop l: the schema attributes
\* of its relation at its own columns, ascending, each once
OwnDescriptor(l) ==
    LET relname == Join(".", l.rel.qualified_name.children)
    IN [relname |-> relname,
        attrs |-> [k \in 1..Cardinality(OwnColumns(l)) |->
                        rels[relname].attrs[Kth(OwnColumns(l), k) + 1]]]

\* C2: the descriptor IndexVisitor appends for an on-index ForLoop over R
\* binding t lists exactly the (name, type) attributes of R at the columns i
\* with Ref(t, i) in that on-index condition, in ascending column order
\* whatever the order of the references, each column once.
C2_DescriptorColumns ==
    [][(visitor = INDEX /\ indexes' # indexes) =>
            LET l == Top.node
                relname == Join(".", l.rel.qualified_name.children)
            IN /\ l.data = "forloop" /\ l.on_index # <<>>
               /\ relname \in DOMAIN indexes'
               /\ indexes'[relname][Len(indexes'[relname])] = OwnDescriptor(l)
               /\ relname \notin DOMAIN indexes => indexes'[relname] = <<OwnDescriptor(l)>>
               /\ \A r \in DOMAIN indexes :
                    /\ r # relname => indexes'[r] = indexes[r]
                    /\ r = relname => indexes'[r] = Append(indexes[r], OwnDescriptor(l))]_vars

\* the ForLoop over R(a:number, b:symbol, c:number) binding t0 whose
\* on-index condition names t0.2, then t0.0, then a column of t1 has just
\* got the descriptor BTREE(a:number, c:number)
C2_Witness ==
    /\ visitor = INDEX
    /\ status = "running"
    /\ stack # <<>>
    /\ Top.node.data = "forloop"
    /\ Top.phase = "children"
    /\ Top.node.on_index = <<OnIndex(CondA("t0"))>>
    /\ Top.node.rel = R
    /\ "R" \in DOMAIN indexes
    /\ indexes["R"][Len(indexes["R"])].attrs = << <<"a", "number">>, <<"c", "number">> >>

\* the on-index forloops below a node, in visit (pre-) order
RECURSIVE OnIndexLoops(_)
RECURSIVE OnIndexLoopsOfAll(_)
OnIndexLoopsOfAll(ns) ==
    IF ns = <<>> THEN <<>> ELSE OnIndexLoops(Head(ns)) \o OnIndexLoopsOfAll(Tail(ns))

OnIndexLoops(n) ==
    CASE n.data = "forloop" ->
            (IF n.on_index # <<>> THEN <<n>> ELSE <<>>) \o OnIndexLoops(n.inner)
      [] n.data \in {"if_stmt", "declare_stmt", "unpack_stmt"} -> OnIndexLoops(n.inner)
      [] n.data = "query_stmt" -> OnIndexLoops(n.op)
      [] n.data = "debug_stmt" -> OnIndexLoops(n.stmt)
      [] n.data = "loop_stmt" -> OnIndexLoopsOfAll(n.body)
      [] n.data = "subroutine" -> OnIndexLoopsOfAll(n.stmts)
      [] n.data = "program" -> OnIndexLoopsOfAll(n.children)
      [] OTHER -> <<>>

LoopRelname(l) == Join(".", l.rel.qualified_name.children)

\* the descriptors of the on-index forloops over the relation r, in order
RECURSIVE DescriptorsFor(_, _)
DescriptorsFor(loops, r) ==
    IF loops = <<>> THEN <<>>
    ELSE (IF LoopRelname(Head(loops)) = r THEN <<OwnDescriptor(Head(loops))>> ELSE <<>>)
            \o DescriptorsFor(Tail(loops), r)

\* C3: after the visit of a tree the list of descriptors of a relation has
\* one entry per on-index ForLoop over it, sibling or nested, in visit
\* order, equal descriptors not merged, and each entry has the columns of
\* its own loop's condition and bound variable only.
C3_IndependentDescriptors ==
    Returned(INDEX) =>
        /\ DOMAIN indexes = {LoopRelname(OnIndexLoops(parsed)[k]) : k \in 1..Len(OnIndexLoops(parsed))}
        /\ \A r \in DOMAIN indexes : indexes[r] = DescriptorsFor(OnIndexLoops(parsed), r)

\* two sibling queries scanning R on different columns, each with its own
\* descriptor
C3_Witness ==
    /\ Returned(INDEX)
    /\ Len(Subroutines(parsed)) = 1
    /\ Len(Subroutines(parsed)[1].stmts) = 2
    /\ "R" \in DOMAIN indexes
    /\ indexes["R"] = <<SouffleBTreeIndex("R", << <<"a", "number">>, <<"c", "number">> >>),
                        SouffleBTreeIndex("R", << <<"b", "symbol">> >>)>>

\* the forloops of an operation chain, outermost first
RECURSIVE LoopsBelow(_)
LoopsBelow(n) ==
    CASE n.data = "forloop" -> <<n>> \o LoopsBelow(n.inner)
      [] n.data \in {"if_stmt", "declare_stmt", "unpack_stmt"} -> LoopsBelow(n.inner)
      [] OTHER -> <<>>

\* a forloop binding the same tuple name over another relation is nested in l
Shadowed(l) ==
    \E k \in 1..Len(LoopsBelow(l.inner)) :
        /\ LoopsBelow(l.inner)[k].tuple_name = l.tuple_name
        /\ LoopRelname(LoopsBelow(l.inner)[k]) # LoopRelname(l)

\* the forloop visits that have bound their tuple and not yet returned
ActiveLoops == {k \in 1..Len(stack) : stack[k].node.data = "forloop" /\ stack[k].phase = "children"}

\* C4: with a ForLoop binding t over S nested in a ForLoop binding t over R,
\* t resolves against S inside the inner loop, is bound to R's schema again
\* once the inner loop has been visited, and the visit of the outer loop
\* completes without error.
C4_ShadowRestored ==
    visitor \in PlanVisitors =>
        /\ \A k \in ActiveLoops :
              Shadowed(stack[k].node) =>
                LET t == stack[k].node.tuple_name
                    same == {j \in ActiveLoops : j >= k /\ stack[j].node.tuple_name = t}
                    innermost == CHOOSE j \in same : \A i \in same : i <= j
                IN /\ t \in DOMAIN bound_tuples
                   /\ bound_tuples[t] = rels[LoopRelname(stack[innermost].node)]
        /\ ~(status = "error" /\ err.at = "forloop" /\ Top.phase = "children"
                /\ Shadowed(Top.node))

\* the variable a binding construct introduces
BoundVar(n) == IF n.data = "unpack_stmt" THEN n.iden ELSE n.tuple_name

Binders == {"forloop", "declare_stmt", "unpack_stmt"}

\* C5: in both renderers ForLoop, Declare and Unpack each add their bound
\* variable to the bound-tuple environment on entry: it is bound at every
\* point of the visit of the construct's inner subtree, and no variable is
\* bound outside the constructs that bind it.
C5_BindersBind ==
    (visitor \in PlanVisitors /\ status = "running") =>
        /\ \A k \in 1..Len(stack) :
              (stack[k].node.data \in Binders /\ stack[k].phase = "children"
                    /\ (stack[k].todo # <<>> \/ k < Len(stack)))
                => BoundVar(stack[k].node) \in DOMAIN bound_tuples
        /\ \A t \in DOMAIN bound_tuples :
              \E k \in 1..Len(stack) :
                 stack[k].node.data \in Binders /\ BoundVar(stack[k].node) = t

\* the attribute names of every relation of the catalog
AttrNames == {rels[r].attrs[k][1] : r \in DOMAIN rels, k \in 1..3}

\* the column of a reference as the claim resolves it in the environment
Resolved(e) ==
    IF e.data = "tuple_element_literal" THEN e.value
    ELSE IF e.tuple_name \in DOMAIN bound_tuples
    THEN e.tuple_name \o "." \o bound_tuples[e.tuple_name].attrs[ParseInt(e.col) + 1][1]
    ELSE e.tuple_name \o "." \o (IF visitor = PY THEN "_" \o e.col ELSE e.col)

C7_TagsInjective ==
    (status = "running" /\ stack # <<>> /\ visitor \in PlanVisitors
        /\ Top.node.data = "clear_stmt") =>
        LET name == Top.node.rel.qualified_name.children
            Render(k) == IF visitor = PY THEN PyVisitExpr(RamRelname(k, name), bound_tuples)
                         ELSE TextualVisitExpr(RamRelname(k, name), bound_tuples)
        IN /\ \A k1, k2 \in RelKinds : k1 # k2 => Render(k1) # Render(k2)
           /\ Render("") = Join(".", name)

\* C8: for every statement Debug wraps (Loop, Query, Clear, Swap, Exit, Io,
\* Debug) and in each renderer, the rendering of Debug(info, inner)
\* completes and is the rendering of inner with the commentary attached and
\* nothing else changed.
C8_DebugTransparent ==
    [][(status = "running" /\ stack # <<>> /\ visitor \in PlanVisitors
            /\ Top.node.data = "debug_stmt" /\ Top.phase = "children" /\ Top.todo = <<>>) =>
            /\ status' # "error"
            /\ IF visitor = PY
               THEN Top.acc[1].t = "dict" =>
                        /\ ret'.c = Top.acc[1].c
                        /\ AsList(ret'.l) = Top.tmp \o AsList(Top.acc[1].l)
               ELSE [ret' EXCEPT !.debug_info = <<>>] = Top.acc[1]]_vars

\* s contains sub
Contains(s, sub) == \E i \in 1..(Len(s) - Len(sub) + 1) : SubSeq(s, i, i + Len(sub) - 1) = sub

\* C9: an Io statement for relation R is rendered, by either renderer, with
\* the filename option exactly when a filename is given and differs from R's
\* name once the ".dl" suffix is removed, and with the tab character as the
\* delimiter when no delimiter option is given.
C9_IoFilename ==
    [][(status = "running" /\ stack # <<>> /\ visitor \in PlanVisitors
            /\ Top.node.data = "io_stmt"
            /\ \E k \in 1..Len(Top.node.options) :
                    Top.node.options[k] \in {<<"operation", "input">>, <<"operation", "output">>}) =>
            LET opts == Top.node.options
                name == Join(".", Top.node.rel.qualified_name.children)
                filenames == {opts[k][2] : k \in {j \in 1..Len(opts) : opts[j][1] = "filename"}}
                delims == {opts[k][2] : k \in {j \in 1..Len(opts) : opts[j][1] = "delimiter"}}
                text == IF visitor = PY THEN ret'.s ELSE ret'.text
                shown == Contains(text, IF visitor = PY THEN ", filename=" ELSE " fname ")
            IN /\ status' # "error"
               /\ shown <=> \E f \in filenames : RemoveSuffix(f, ".dl") # name
               /\ delims = {} => Contains(text, IF visitor = PY THEN "delim='\\t'" ELSE "delim '\\t'")]_vars

\* the lines of a returned plan in document order, each with its nesting depth
RECURSIVE PlanLines(_, _)
RECURSIVE PlanLinesOfAll(_, _)
PlanLinesOfAll(ps, depth) ==
    IF ps = <<>> THEN <<>> ELSE PlanLines(Head(ps), depth) \o PlanLinesOfAll(Tail(ps), depth)

PlanLines(p, depth) ==
    CASE p.t = "str" -> <<[depth |-> depth, text |-> p.s]>>
      [] p.t = "list" -> [k \in 1..Len(p.xs) |-> [depth |-> depth, text |-> p.xs[k]]]
      [] p.t = "dict" ->
            [k \in 1..Len(AsList(p.l)) |-> [depth |-> depth, text |-> AsList(p.l)[k]]]
                \o PlanLinesOfAll(p.c, depth + 1)
      [] p.t = "PlanNode" ->
            <<[depth |-> depth, text |-> p.text]>> \o PlanLinesOfAll(p.children, depth + 1)

HasPrefix(s, pre) == Len(s) >= Len(pre) /\ SubSeq(s, 1, Len(pre)) = pre

IsGuardLine(l) == HasPrefix(l.text, "for ") \/ HasPrefix(l.text, "if ")

\* the ForLoops and Ifs of an operation chain, outermost first
RECURSIVE GuardsBelow(_)
GuardsBelow(n) ==
    CASE n.data \in {"forloop", "if_stmt"} -> <<n>> \o GuardsBelow(n.inner)
      [] n.data \in {"declare_stmt", "unpack_stmt"} -> GuardsBelow(n.inner)
      [] OTHER -> <<>>

\* a breaking If whose inner is a single statement that is not compound
Compact(n) ==
    n.data = "if_stmt" /\ n.break /\ n.inner.data \in {"insert_stmt", "erase_stmt"}

\* the marks of an index-seek annotation in the two notations
Annotated(n, text) ==
    IF visitor = PY
    THEN Contains(text, IF n.data = "forloop" THEN "index_scan(" ELSE "index_cond(")
    ELSE Contains(text, IF n.data = "forloop" THEN " if " ELSE " using index ")

\* C10: both renderers keep guards and nesting: the plan returned for a
\* query holds the guard of every ForLoop and If of the chain, breaking or
\* not, in tree order and with its index-seek annotation when there is an
\* on-index condition, and the inner statement is one level deeper than the
\* guard unless the construct is a breaking If around a single non-compound
\* statement.
C10_GuardsAndNesting ==
    [][(status = "running" /\ stack # <<>> /\ visitor \in PlanVisitors
            /\ Top.node.data = "query_stmt" /\ Top.phase = "children" /\ Top.todo = <<>>
            /\ status' # "error") =>
            LET lines == PlanLines(ret', 0)
                at == {k \in 1..Len(lines) : IsGuardLine(lines[k])}
                guards == GuardsBelow(Top.node.op)
            IN /\ Cardinality(at) = Len(guards)
               /\ \A i \in 1..Len(guards) :
                    i <= Cardinality(at) =>
                        LET k == Kth(at, i)
                            g == guards[i]
                        IN /\ HasPrefix(lines[k].text, IF g.data = "forloop" THEN "for " ELSE "if ")
                           /\ g.on_index # <<>> => Annotated(g, lines[k].text)
                           /\ ~Compact(g) =>
                                /\ k < Len(lines)
                                /\ lines[k + 1].depth = lines[k].depth + 1]_vars

\* the terminal Insert or Erase of an operation chain
RECURSIVE TerminalOf(_)
TerminalOf(n) == IF n.data \in {"insert_stmt", "erase_stmt"} THEN n ELSE TerminalOf(n.inner)

\* the ForLoops, Ifs, Declares and Unpacks of an operation chain, outermost first
RECURSIVE LinksBelow(_)
LinksBelow(n) == IF n.data \in {"insert_stmt", "erase_stmt"} THEN <<>> ELSE <<n>> \o LinksBelow(n.inner)

\* the mark of the mutation in the two notations
MutationMark(n) ==
    IF visitor = PY
    THEN IF n.data = "insert_stmt" THEN ".add(" ELSE ".remove("
    ELSE IF n.data = "insert_stmt" THEN " U {" ELSE " \\ {"

\* text is the line a link of the chain is rendered as
RendersLink(n, text) ==
    CASE n.data = "forloop" -> HasPrefix(text, "for " \o n.tuple_name \o " in ")
      [] n.data = "if_stmt" -> HasPrefix(text, "if ")
      [] n.data = "declare_stmt" -> Contains(text, " = " \o n.aggregator)
      [] n.data = "unpack_stmt" -> HasPrefix(text, n.iden \o " ")

\* C11: the plan either renderer returns for a query chain ending in Insert
\* or Erase holds the mutation of the target relation by the tuple
\* expression, Insert as an add / set-union and Erase as a remove /
\* set-difference, and a line for every enclosing ForLoop, If, Declare and
\* Unpack of the chain.
C11_MutationRendered ==
    [][(status = "running" /\ stack # <<>> /\ visitor \in PlanVisitors
            /\ Top.node.data = "query_stmt" /\ Top.phase = "children" /\ Top.todo = <<>>
            /\ status' # "error") =>
            LET lines == PlanLines(ret', 0)
                term == TerminalOf(Top.node.op)
                links == LinksBelow(Top.node.op)
                mutations == {k \in 1..Len(lines) :
                                /\ Contains(lines[k].text, MutationMark(term))
                                /\ Contains(lines[k].text, IF visitor = PY THEN PyVisitExpr(term.rel, <<>>)
                                                            ELSE TextualVisitExpr(term.rel, <<>>))}
            IN /\ Cardinality(mutations) = 1
               /\ \A i \in 1..Len(links) :
                    \E k \in 1..Len(lines) : RendersLink(links[i], lines[k].text)]_vars

\* C12: no pass changes the tree it is given: once IndexVisitor,
\* PyPlanVisitor or TextualPlanVisitor has visited a program, the tree is
\* what the parser returned, its subroutines in declaration order and with
\* the same content.
C12_TreeUnchanged == status = "done" => tree = parsed

\* the fatal error of an acquisition step
AcquisitionError(call) ==
    IF call.module = "souffle" /\ ~call.use_transformed THEN "PreprocessorError" ELSE "SouffleError"

\* C13: ram.parse, and souffle.parse in both modes, raise their fatal error
\* (the compiler-invocation error, or the preprocessing error for
\* souffle.parse without use_transformed) exactly when the subprocess ends
\* with a non-zero exit code, the error carrying the file name and that exit
\* code; after an exit code of 0 the text goes to the parser.
C13_RaisesOnFailure ==
    \A k \in 1..Len(calls) :
        LET call == calls[k]
        IN IF call.exit # 0
           THEN /\ call.exc = AcquisitionError(call)
                /\ call.fname = Basename(call.path)
                /\ call.ecode = <<call.exit>>
           ELSE call.exc \in {"", "UnexpectedInput"}

\* C14: when parse_files ends, by returning or by an exception, every file
\* of the list has been processed, those after a failing one included.
C14_BatchIsolation ==
    (command = "parse_files" /\ outcome \in {"returned", "raised"}) =>
        Len(calls) = Len(files)

\* C15: index inference never emits a descriptor for a relation outside the
\* Schema Catalog: every key of the index mapping, and the relname of every
\* descriptor in it, is a catalog relation, and a pass that met an on-index
\* ForLoop over a relation absent from the catalog has failed.
C15_OnlyCatalogRelations ==
    visitor = INDEX =>
        /\ \A key \in DOMAIN indexes :
                /\ key \in DOMAIN rels
                /\ \A k \in 1..Len(indexes[key]) : indexes[key][k].relname \in DOMAIN rels
        /\ \A k \in 1..Len(stack) :
                LET n == stack[k].node
                IN (n.data = "forloop" /\ n.on_index # <<>> /\ stack[k].phase = "children") =>
                        qualified_name(n.rel.qualified_name) \in DOMAIN rels

\* the pass has emitted a descriptor and then failed on an on-index ForLoop
\* over a relation absent from the catalog
C15_Witness ==
    /\ visitor = INDEX /\ status = "error" /\ err.at = "forloop"
    /\ Top.node.data = "forloop"
    /\ qualified_name(Top.node.rel.qualified_name) = "T"
    /\ DOMAIN indexes = {"S"}

\* the ForLoop visits in progress
LoopsOnStack == {k \in 1..Len(stack) : stack[k].node.data = "forloop"}

\* C16: in PyPlanVisitor and TextualPlanVisitor, when the top-level visit
\* returns without raising, _bound_tuples is empty again, and at every point
\* of the traversal every bound name is the bound variable of a ForLoop
\* whose visit is in progress.
C16_ScopeBalance ==
    visitor \in PlanVisitors =>
        /\ status = "done" => bound_tuples = EmptyDict
        /\ DOMAIN bound_tuples \subseteq {stack[k].node.tuple_name : k \in LoopsOnStack}

\* a traversal of a query with two nested ForLoops has returned
C16_Witness ==
    /\ visitor \in PlanVisitors /\ status = "done" /\ bound_tuples = EmptyDict
    /\ \E i \in 1..Len(Subroutines(parsed)) :
        \E j \in 1..Len(Subroutines(parsed)[i].stmts) :
            LET stmt == Subroutines(parsed)[i].stmts[j]
            IN stmt.data = "query_stmt" /\ Len(LoopsBelow(stmt.op)) = 2

====
